---------------------------- MODULE Spec2Model ----------------------------
(***************************************************************************)
(* FacultyFinder: the semantic retrieval engine (model/recommender.py),    *)
(* the embedding producer (model/build_embeddings.py), the HTTP facade     *)
(* (pipeline/recommender_api.py), and the data pipeline that feeds them:   *)
(* the runner (pipeline/pipeline.py) with its steps json_to_csv.py,        *)
(* clean_faculty_csv.py and the table refresh csv_to_sqlite.py, the data   *)
(* API (main.py) and the corpus fetch (model/fetch_data.py).               *)
(*                                                                         *)
(* Text is a sequence of one-character strings.  Floating point numbers    *)
(* are fixed-point integers: a vector component is a count of 1/FP, a      *)
(* similarity score (a dot product of two unit vectors) a count of         *)
(* 1/(FP*FP), a rounded score a count of 1/FP.  Python's 0-based indices   *)
(* are 1-based here; the order of indices is the same.                     *)
(***************************************************************************)
EXTENDS Integers, Sequences, FiniteSets, TLC

VARIABLES
    corpus,       \* faculty_data.json: the corpus records, or NoFile
    embFile,      \* faculty_embeddings_all_mpnet.npy on disk, or NoFile
    metaFile,     \* faculty_meta_all_mpnet.json on disk, or NoFile
    build,        \* build_embeddings.main: position and locals
    api,          \* recommender_api module: load position and its globals
    sortStable,   \* whether this build of numpy.argsort keeps ties in index order
    req,          \* per request slot: position, arguments, locals, outcome
    writes,       \* how many times the corpus file has been rewritten
    csv,          \* faculty_all_cleaned.csv: the cleaned rows, or NoFile
    db,           \* faculty.db: the committed faculty table and sqlite_sequence
    job,          \* csv_to_sqlite: position, locals, and how often it has run
    scraped,      \* daiict_faculty/<faculty_type>.json: scraped items, or NoFile
    raw,          \* faculty_all.csv: the rows json_to_csv wrote, or NoFile
    run,          \* pipeline.py: position, arguments, steps started, exit codes
    http          \* the data API (main.py): the last request and its response

\* The state of the data pipeline
pipeVars == <<csv, db, job, scraped, raw, run, http>>

vars == <<corpus, embFile, metaFile, build, api, sortStable, req, writes, pipeVars>>

-----------------------------------------------------------------------------
(* Bounds of the model *)

MaxCorpus == 2          \* records in a corpus
MaxWrites == 1          \* rewrites of the corpus file in one behaviour
MaxCsv == 2             \* rows in the cleaned CSV
MaxRefresh == 2         \* runs of csv_to_sqlite in one behaviour
MaxTable == 501         \* rows of the largest table the corpus is fetched from

-----------------------------------------------------------------------------
(* Program constants *)

ScoreDecimals == 4      \* round(float(score), 4)
QMinLength == 2         \* Query(..., min_length=2)
TopKGe == 1             \* Query(TOP_K_RESULTS, ge=1, le=20)
TopKLe == 20
CLI_TOP_K == 5           \* recommender.main: recommend_faculty(.., top_k=5)
API_LIMIT == 500        \* config.settings.API_LIMIT
LimitGe == 1            \* get_all_faculty: limit: Query(100, ge=1, le=500)
LimitLe == 500
ITEM_LEN_OVER == 2      \* clean_list_items: len(item) > 2

RECURSIVE Pow10(_)
Pow10(n) == IF n = 0 THEN 1 ELSE 10 * Pow10(n - 1)

FP == Pow10(ScoreDecimals)      \* fixed-point 1.0 of a vector component

None == "<None>"                \* Python's None, distinct from every str used

-----------------------------------------------------------------------------
(* Text *)

Whitespace == {" ", "\t", "\n"}

UPPER == <<"A","B","C","D","E","F","G","H","I","J","K","L","M",
           "N","O","P","Q","R","S","T","U","V","W","X","Y","Z">>
LOWER == <<"a","b","c","d","e","f","g","h","i","j","k","l","m",
           "n","o","p","q","r","s","t","u","v","w","x","y","z">>

LowerChar(c) ==
    IF \E i \in 1..Len(UPPER) : UPPER[i] = c
    THEN LOWER[CHOOSE i \in 1..Len(UPPER) : UPPER[i] = c]
    ELSE c

\* str.lower()
Lower(s) == [i \in 1..Len(s) |-> LowerChar(s[i])]

\* str.split(): the maximal runs of non-whitespace characters, in order
RECURSIVE SplitFrom(_, _, _, _)
SplitFrom(s, i, word, words) ==
    IF i > Len(s)
    THEN IF word = <<>> THEN words ELSE Append(words, word)
    ELSE IF s[i] \in Whitespace
         THEN SplitFrom(s, i + 1, <<>>,
                        IF word = <<>> THEN words ELSE Append(words, word))
         ELSE SplitFrom(s, i + 1, Append(word, s[i]), words)

Split(s) == SplitFrom(s, 1, <<>>, <<>>)

\* " ".join(words)
RECURSIVE Join(_)
Join(words) ==
    IF words = <<>> THEN <<>>
    ELSE IF Len(words) = 1 THEN words[1]
    ELSE words[1] \o <<" ">> \o Join(Tail(words))

\* str.strip()
RECURSIVE LStrip(_)
LStrip(s) == IF s # <<>> /\ s[1] \in Whitespace THEN LStrip(Tail(s)) ELSE s
RECURSIVE RStrip(_)
RStrip(s) ==
    IF s # <<>> /\ s[Len(s)] \in Whitespace
    THEN RStrip(SubSeq(s, 1, Len(s) - 1)) ELSE s
Strip(s) == RStrip(LStrip(s))

W_machine == <<"m","a","c","h","i","n","e">>
W_learning == <<"l","e","a","r","n","i","n","g">>
W_deep == <<"d","e","e","p">>
W_artificial == <<"a","r","t","i","f","i","c","i","a","l">>
W_intelligence == <<"i","n","t","e","l","l","i","g","e","n","c","e">>
W_natural == <<"n","a","t","u","r","a","l">>
W_language == <<"l","a","n","g","u","a","g","e">>
W_processing == <<"p","r","o","c","e","s","s","i","n","g">>
W_computer == <<"c","o","m","p","u","t","e","r">>
W_vision == <<"v","i","s","i","o","n">>
W_information == <<"i","n","f","o","r","m","a","t","i","o","n">>
W_retrieval == <<"r","e","t","r","i","e","v","a","l">>
W_human == <<"h","u","m","a","n">>
W_interaction == <<"i","n","t","e","r","a","c","t","i","o","n">>
W_internet == <<"i","n","t","e","r","n","e","t">>
W_of == <<"o","f">>
W_things == <<"t","h","i","n","g","s">>
W_database == <<"d","a","t","a","b","a","s","e">>
W_management == <<"m","a","n","a","g","e","m","e","n","t">>
W_systems == <<"s","y","s","t","e","m","s">>
W_operating == <<"o","p","e","r","a","t","i","n","g">>
W_data == <<"d","a","t","a">>
W_science == <<"s","c","i","e","n","c","e">>
W_neural == <<"n","e","u","r","a","l">>
W_networks == <<"n","e","t","w","o","r","k","s">>
W_reinforcement == <<"r","e","i","n","f","o","r","c","e","m","e","n","t">>
W_very == <<"v","e","r","y">>
W_large == <<"l","a","r","g","e">>
W_scale == <<"s","c","a","l","e">>
W_integration == <<"i","n","t","e","g","r","a","t","i","o","n">>
W_model == <<"m","o","d","e","l">>
W_for == <<"f","o","r">>
W_research == <<"r","e","s","e","a","r","c","h">>
W_in == <<"i","n">>
W_academic == <<"a","c","a","d","e","m","i","c">>
W_field == <<"f","i","e","l","d">>
W_study == <<"s","t","u","d","y">>

\* ACRONYM_MAP: key |-> expansion
ACRONYM_MAP ==
    << <<<<"m","l">>, Join(<<W_machine, W_learning>>)>>,
       <<<<"d","l">>, Join(<<W_deep, W_learning>>)>>,
       <<<<"a","i">>, Join(<<W_artificial, W_intelligence>>)>>,
       <<<<"n","l","p">>, Join(<<W_natural, W_language, W_processing>>)>>,
       <<<<"c","v">>, Join(<<W_computer, W_vision>>)>>,
       <<<<"i","r">>, Join(<<W_information, W_retrieval>>)>>,
       <<<<"h","c","i">>, Join(<<W_human, W_computer, W_interaction>>)>>,
       <<<<"i","o","t">>, Join(<<W_internet, W_of, W_things>>)>>,
       <<<<"d","b","m","s">>, Join(<<W_database, W_management, W_systems>>)>>,
       <<<<"o","s">>, Join(<<W_operating, W_systems>>)>>,
       <<<<"d","s">>, Join(<<W_data, W_science>>)>>,
       <<<<"n","n">>, Join(<<W_neural, W_networks>>)>>,
       <<<<"r","l">>, Join(<<W_reinforcement, W_learning>>)>>,
       <<<<"v","l","s","i">>, Join(<<W_very, W_large, W_scale, W_integration>>)>>,
       <<<<"l","l","m">>, Join(<<W_large, W_language, W_model>>)>> >>

\* A lookup that finds nothing: every word is left as it is
AcronymGetNone(word) == word

\* ACRONYM_MAP.get(word, word)
AcronymGet(word) ==
    IF \E i \in 1..Len(ACRONYM_MAP) : ACRONYM_MAP[i][1] = word
    THEN ACRONYM_MAP[CHOOSE i \in 1..Len(ACRONYM_MAP) : ACRONYM_MAP[i][1] = word][2]
    ELSE word

expand_acronyms_cased(query) ==
    LET words == Split(query)
        expanded == [i \in 1..Len(words) |-> AcronymGet(words[i])]
    IN  Join(expanded)
expand_acronyms(query) ==
    LET words == Split(Lower(query))
        expanded == [i \in 1..Len(words) |-> AcronymGet(words[i])]
    IN  Join(expanded)


-----------------------------------------------------------------------------
(* Numbers and vectors *)

\* floor(sqrt(n)), by bisection
RECURSIVE SqrtBetween(_, _, _)
SqrtBetween(n, lo, hi) ==
    IF lo >= hi THEN lo
    ELSE LET mid == (lo + hi + 1) \div 2
         IN  IF mid * mid <= n THEN SqrtBetween(n, mid, hi)
             ELSE SqrtBetween(n, lo, mid - 1)

ISqrt(n) == SqrtBetween(n, 0, 4 * FP)

RECURSIVE SumOver(_, _)
SumOver(f, i) == IF i = 0 THEN 0 ELSE f[i] + SumOver(f, i - 1)

Dot(a, b) == SumOver([i \in 1..Len(a) |-> a[i] * b[i]], Len(a))

\* Euclidean norm of a vector of 1/FP components, in 1/FP
Norm(v) == ISqrt(Dot(v, v))

\* sklearn.preprocessing.normalize, as cosine_similarity and
\* encode(normalize_embeddings=True) apply it: a zero norm is replaced by 1
Normalize(v) ==
    LET n == IF Norm(v) = 0 THEN FP ELSE Norm(v)
    IN  [i \in 1..Len(v) |-> (v[i] * FP) \div n]

-----------------------------------------------------------------------------
(* The sentence encoder: an opaque, deterministic map from text to vector *)

T_ML == Join(<<W_machine, W_learning>>)
T_NEAR == T_ML \o <<".">>
T_CV == Join(<<W_computer, W_vision>>)
T_DLCV == Join(<<W_deep, W_learning, W_for, W_computer, W_vision>>)
T_DASH == <<"-">>

EncodeRaw(text) ==
    CASE text = T_ML   -> <<18000, 24000>>
      [] text = T_NEAR -> <<6001, 7999>>
      [] text = T_CV   -> <<10000, 0>>
      [] text = T_DLCV -> <<16000, 12000>>
      [] text = <<>>   -> <<0, 5000>>
      [] text = T_DASH -> <<0, 0>>
      [] OTHER         -> <<-10000, 0>>

\* SentenceTransformer.encode(text, normalize_embeddings=normalize)
Encode(text, normalize) ==
    IF normalize THEN Normalize(EncodeRaw(text)) ELSE EncodeRaw(text)

-----------------------------------------------------------------------------
(* model/recommender.py *)

\* embed_query: model.encode(query, normalize_embeddings=True)
embed_query(query) == Encode(query, TRUE)

\* The query and four templated variants of it
Suffixes ==
    << <<W_research>>, <<W_in, W_computer, W_science>>,
       <<W_academic, W_research>>, <<W_field, W_of, W_study>> >>

Variants(text) ==
    <<text>> \o [i \in 1..Len(Suffixes) |-> text \o <<" ">> \o Join(Suffixes[i])]

\* A query of at most two tokens encoded together with its variants
EncoderInputsAugmented(query) ==
    IF Len(Split(query)) <= 2 THEN Variants(Join(Split(query)))
    ELSE <<expand_acronyms(query)>>

\* The strings recommend_faculty hands to model.encode: the expanded query
EncoderInputs(query) == <<expand_acronyms(query)>>

\* query_embedding = embed_query(expanded_query, model)
QueryEmbedding(query) == embed_query(EncoderInputs(query)[1])

ZeroVector(v) == \A i \in 1..Len(v) : v[i] = 0

\* A similarity that rejects a row of norm zero instead of scoring it 0
CosineRaisesOnZeroRow(embeddings) ==
    \/ Len(embeddings) = 0
    \/ \E i \in 1..Len(embeddings) : ZeroVector(embeddings[i])

\* sklearn cosine_similarity(query_embedding, embeddings)[0]: both sides are
\* normalized, then multiplied.  It raises ValueError on an array without rows.
CosineRaises(embeddings) == Len(embeddings) = 0

cosine_similarity(query_embedding, embeddings) ==
    [i \in 1..Len(embeddings) |->
        Dot(Normalize(query_embedding), Normalize(embeddings[i]))]

\* round(float(x), 4): to the nearest 1/FP, halves to even
Round4(score) ==
    LET q == score \div FP
        r == score % FP
    IN  IF 2 * r > FP THEN q + 1
        ELSE IF 2 * r < FP THEN q
        ELSE IF q % 2 = 0 THEN q ELSE q + 1

\* The scores rounded for presentation before they are sorted
SortKeyRounded(score) == Round4(score)

\* The key numpy.argsort compares
SortKey(score) == score

\* np.argsort(similarity_scores): the indices in ascending order of score.
\* The default kind is not a stable sort: among equal scores the order is
\* the build's choice, in index order when stable, here reversed when not.
ArgSort(scores, stable) ==
    LET N == Len(scores)
        Before(i, j) ==
            \/ SortKey(scores[i]) < SortKey(scores[j])
            \/ /\ SortKey(scores[i]) = SortKey(scores[j])
               /\ IF stable THEN i < j ELSE i > j
    IN  [r \in 1..N |->
            CHOOSE i \in 1..N : Cardinality({j \in 1..N : Before(j, i)}) = r - 1]

\* a[::-1]
Reversed(a) == [r \in 1..Len(a) |-> a[Len(a) + 1 - r]]

\* ranked_indices = np.argsort(similarity_scores)[::-1]
RankedIndices(scores, stable) == Reversed(ArgSort(scores, stable))

\* Python truth value of an Optional[str]
Truthy(x) == x # None /\ x # ""

\* if faculty_type and faculty["faculty_type"] != faculty_type: continue
FilterSkips(faculty, faculty_type) ==
    Truthy(faculty_type) /\ faculty.faculty_type # faculty_type

\* faculty.get("text", "")
GetText(faculty) == IF "text" \in DOMAIN faculty THEN faculty.text ELSE <<>>

\* The dict appended to results
ResultRecord(faculty, score) ==
    [id |-> faculty.id,
     name |-> faculty.name,
     faculty_type |-> faculty.faculty_type,
     similarity_score |-> Round4(score),
     matched_text |-> GetText(faculty)]

\* if len(results) >= top_k: break
LoopBreaks(results, top_k) == Len(results) >= top_k

\* results = []
InitialResults == <<>>

Returned(results) == [status |-> "ok", results |-> results]
Raised(error) == [status |-> error, results |-> <<>>]

\* for idx in ranked_indices: ... ; return results
RECURSIVE RankLoop(_, _, _, _, _, _, _)
RankLoop(ranked, pos, results, scores, metadata, top_k, faculty_type) ==
    IF pos > Len(ranked) THEN Returned(results)
    ELSE LET idx == ranked[pos]
         IN  IF idx > Len(metadata) THEN Raised("IndexError")
             ELSE LET faculty == metadata[idx]
                  IN  IF FilterSkips(faculty, faculty_type)
                      THEN RankLoop(ranked, pos + 1, results, scores,
                                    metadata, top_k, faculty_type)
                      ELSE LET appended ==
                                   Append(results,
                                          ResultRecord(faculty, scores[idx]))
                           IN  IF LoopBreaks(appended, top_k)
                               THEN Returned(appended)
                               ELSE RankLoop(ranked, pos + 1, appended, scores,
                                             metadata, top_k, faculty_type)

\* recommend_faculty after the query is embedded (lines 141-167)
RankAndAssemble(query_embedding, embeddings, metadata, top_k, faculty_type, stable, results0) ==
    IF CosineRaises(embeddings) THEN Raised("ValueError")
    ELSE LET scores == cosine_similarity(query_embedding, embeddings)
         IN  RankLoop(RankedIndices(scores, stable), 1, results0, scores,
                      metadata, top_k, faculty_type)

\* recommend_faculty, whole
recommend_faculty(query, embeddings, metadata, top_k, faculty_type, stable) ==
    RankAndAssemble(QueryEmbedding(query), embeddings, metadata,
                    top_k, faculty_type, stable, InitialResults)

-----------------------------------------------------------------------------
(* Files, and the corpus: faculty_data.json *)

NoFile == [exists |-> FALSE, data |-> <<>>]
File(data) == [exists |-> TRUE, data |-> data]

Categories == {"", "regular", "adjunct"}

\* The (faculty_type, text) pairs a corpus record is drawn from
Profiles ==
    { [faculty_type |-> "regular", text |-> T_ML],
      [faculty_type |-> "adjunct", text |-> T_ML],
      [faculty_type |-> "", text |-> T_NEAR],
      [faculty_type |-> "regular", text |-> T_CV],
      [faculty_type |-> "regular", text |-> T_DASH],
      [faculty_type |-> "adjunct", text |-> <<>>] }

NameOf(id) == "name" \o ToString(id)

\* A record as model/fetch_data.py writes it
ModelRecord(id, p) ==
    [id |-> id, name |-> NameOf(id),
     faculty_type |-> p.faculty_type, text |-> p.text]

\* A record that also carries the contact fields
FullRecord(id, p) ==
    [id |-> id, name |-> NameOf(id),
     email |-> "mail" \o ToString(id), link |-> "link" \o ToString(id),
     faculty_type |-> p.faculty_type, text |-> p.text]

\* A record whose text, when there is none, is left out altogether
BareRecord(id, p) ==
    IF p.text = <<>>
    THEN [id |-> id, name |-> NameOf(id),
          email |-> "mail" \o ToString(id), link |-> "link" \o ToString(id),
          faculty_type |-> p.faculty_type]
    ELSE FullRecord(id, p)

\* The profiles of the corpora the offline jobs are run on
BuildProfiles ==
    { [faculty_type |-> "regular", text |-> T_ML],
      [faculty_type |-> "", text |-> T_CV],
      [faculty_type |-> "adjunct", text |-> <<>>] }

ProfileLists(profiles) == UNION { [1..n -> profiles] : n \in 0..MaxCorpus }

FullCorpora(profiles) ==
    { [i \in DOMAIN ps |-> FullRecord(i, ps[i])] : ps \in ProfileLists(profiles) }
ModelCorpora(profiles) ==
    { [i \in DOMAIN ps |-> ModelRecord(i, ps[i])] : ps \in ProfileLists(profiles) }

BareCorpora(profiles) ==
    { [i \in DOMAIN ps |-> BareRecord(i, ps[i])] : ps \in ProfileLists(profiles) }

BuildCorpora ==
    FullCorpora(BuildProfiles) \cup ModelCorpora(BuildProfiles)
        \cup BareCorpora(BuildProfiles)

-----------------------------------------------------------------------------
(* model/build_embeddings.py *)

EMBEDDING_NORMALIZE == FALSE      \* config.settings.NORMALIZE_EMBEDDINGS

RequiredKeys == {"id", "name", "email", "link", "faculty_type", "text"}

\* The dict main appends to metadata
MetaRecord(record) ==
    [id |-> record.id, name |-> record.name, email |-> record.email,
     link |-> record.link, faculty_type |-> record.faculty_type,
     text |-> record.text]

\* A record skipped only when it has no text key at all
SkipsRecordOnlyMissing(record) == "text" \notin DOMAIN record

\* if not text: continue
SkipsRecord(record) == GetText(record) = <<>>

\* The loop with texts.append(text) moved above the empty-text test
RECURSIVE CollectFromAppendsEarly(_, _, _, _)
CollectFromAppendsEarly(faculty_data, i, texts, metadata) ==
    IF i > Len(faculty_data)
    THEN [status |-> "ok", texts |-> texts, metadata |-> metadata]
    ELSE LET record == faculty_data[i]
         IN  IF SkipsRecord(record)
             THEN CollectFromAppendsEarly(faculty_data, i + 1,
                                          Append(texts, GetText(record)), metadata)
             ELSE IF ~(RequiredKeys \subseteq DOMAIN record)
             THEN [status |-> "KeyError", texts |-> <<>>, metadata |-> <<>>]
             ELSE CollectFromAppendsEarly(faculty_data, i + 1,
                                          Append(texts, GetText(record)),
                                          Append(metadata, MetaRecord(record)))

\* The loop of main over faculty_data: texts and metadata grow together;
\* record["email"] of a kept record without that key raises KeyError
RECURSIVE CollectFrom(_, _, _, _)
CollectFrom(faculty_data, i, texts, metadata) ==
    IF i > Len(faculty_data)
    THEN [status |-> "ok", texts |-> texts, metadata |-> metadata]
    ELSE LET record == faculty_data[i]
         IN  IF SkipsRecord(record)
             THEN CollectFrom(faculty_data, i + 1, texts, metadata)
             ELSE IF ~(RequiredKeys \subseteq DOMAIN record)
             THEN [status |-> "KeyError", texts |-> <<>>, metadata |-> <<>>]
             ELSE CollectFrom(faculty_data, i + 1,
                              Append(texts, GetText(record)),
                              Append(metadata, MetaRecord(record)))

Collect(faculty_data) == CollectFrom(faculty_data, 1, <<>>, <<>>)

\* model.encode(texts, normalize_embeddings=NORMALIZE_EMBEDDINGS): a row per text
EncodeAll(texts) == [i \in 1..Len(texts) |-> Encode(texts[i], EMBEDDING_NORMALIZE)]

BuildIdle == [pc |-> "idle", metadata |-> <<>>, embeddings |-> <<>>]

\* main up to the first write: load the corpus, collect, encode
BuildStart ==
    /\ build.pc = "idle"
    /\ corpus.exists
    /\ LET c == Collect(corpus.data)
       IN  build' = IF c.status = "ok"
                    THEN [pc |-> "saveEmbeddings", metadata |-> c.metadata,
                          embeddings |-> EncodeAll(c.texts)]
                    ELSE [BuildIdle EXCEPT !.pc = "failed"]
    /\ UNCHANGED <<corpus, embFile, metaFile, api, sortStable, req, writes, pipeVars>>

\* save_embeddings(embeddings, FACULTY_EMBEDDINGS_PATH)
BuildSaveEmbeddings ==
    /\ build.pc = "saveEmbeddings"
    /\ embFile' = File(build.embeddings)
    /\ build' = [build EXCEPT !.pc = "saveMetadata"]
    /\ UNCHANGED <<corpus, metaFile, api, sortStable, req, writes, pipeVars>>

\* save_metadata(metadata, FACULTY_META_PATH)
BuildSaveMetadata ==
    /\ build.pc = "saveMetadata"
    /\ metaFile' = File(build.metadata)
    /\ build' = [build EXCEPT !.pc = "done"]
    /\ UNCHANGED <<corpus, embFile, api, sortStable, req, writes, pipeVars>>

\* The process ends; the job can be run again
BuildExit ==
    /\ build.pc \in {"done", "failed"}
    /\ build' = BuildIdle
    /\ UNCHANGED <<corpus, embFile, metaFile, api, sortStable, req, writes, pipeVars>>

\* The artifacts a complete run of main leaves for a corpus
BuiltEmbeddings(c) == EncodeAll(Collect(c).texts)
BuiltMetadata(c) == Collect(c).metadata

\* model/fetch_data.py main: the corpus file is written anew
WriteCorpus ==
    /\ writes < MaxWrites
    /\ writes' = writes + 1
    /\ \E c \in BuildCorpora : corpus' = File(c)
    /\ corpus' # corpus
    /\ UNCHANGED <<embFile, metaFile, build, api, sortStable, req, pipeVars>>

-----------------------------------------------------------------------------
(* pipeline/csv_to_sqlite.py, and the way from the table to the corpus:    *)
(* main.py GET /faculty and model/fetch_data.py                            *)

\* The rows a cleaned CSV is made of; the third repeats the first's email
MAIL1 == <<"m", "1">>
MAIL2 == <<"m", "2">>

CsvRows ==
    { [name |-> "name1", email |-> MAIL1, faculty_type |-> "regular",
       text_for_embedding |-> T_ML],
      [name |-> "name2", email |-> MAIL2, faculty_type |-> "",
       text_for_embedding |-> T_CV],
      [name |-> "name3", email |-> MAIL1, faculty_type |-> "adjunct",
       text_for_embedding |-> <<>>] }

Csvs == UNION { [1..n -> CsvRows] : n \in 0..MaxCsv }

\* faculty.db before csv_to_sqlite has ever run, and no job running
NoDb == [created |-> FALSE, faculty |-> <<>>, sequence |-> 0]
JobIdle == [pc |-> "idle", df |-> <<>>, runs |-> 0]

\* The pipeline at rest with nothing on disk
FACULTY_TYPES ==
    <<"faculty", "adjunct", "international_adjunct", "distinguished", "practice">>

\* pipeline.py not started, nothing scraped, no raw CSV
NoScraped == [t \in {FACULTY_TYPES[k] : k \in 1..Len(FACULTY_TYPES)} |-> NoFile]
RunIdle ==
    [pc |-> "idle", all |-> FALSE, todo |-> <<>>, i |-> 1,
     started |-> <<>>, codes |-> <<>>, message |-> FALSE]

\* No request made yet
HttpIdle == [request |-> <<>>, response |-> [pc |-> "idle"]]

\* The pipeline at rest with nothing on disk
PipeIdle ==
    /\ csv = NoFile
    /\ db = NoDb
    /\ job = JobIdle
    /\ scraped = NoScraped
    /\ raw = NoFile
    /\ run = RunIdle
    /\ http = HttpIdle

\* The row INSERT stores: id INTEGER PRIMARY KEY AUTOINCREMENT is one more
\* than the largest id the table has ever held (sqlite_sequence)
TableRow(row, sequence) ==
    [id |-> sequence + 1, name |-> row.name, email |-> row.email,
     faculty_type |-> row.faculty_type,
     text_for_embedding |-> row.text_for_embedding]

\* A missing cell: JSON null, pandas' NaN / pd.NA / None, SQL NULL; it is
\* no text
NA == <<"<NA>">>

\* email TEXT UNIQUE: no two rows with the same email, NULL apart
EmailTaken(rows, email) ==
    email # NA /\ \E k \in 1..Len(rows) : rows[k].email = email

\* insert_faculty_data: one INSERT per row of df inside one transaction,
\* committed after the last; an INSERT that raises leaves nothing of the
\* transaction committed: the i - 1 rows inserted so far are rolled back
RECURSIVE InsertFromCommitsEach(_, _, _, _)
InsertFromCommitsEach(df, i, rows, sequence) ==
    IF i > Len(df) THEN [status |-> "ok", faculty |-> rows, sequence |-> sequence]
    ELSE IF EmailTaken(rows, df[i].email)
    THEN [status |-> "IntegrityError", faculty |-> rows, sequence |-> sequence]
    ELSE InsertFromCommitsEach(df, i + 1, Append(rows, TableRow(df[i], sequence)),
                               sequence + 1)
RECURSIVE InsertFrom(_, _, _, _)
InsertFrom(df, i, rows, sequence) ==
    IF i > Len(df) THEN [status |-> "ok", faculty |-> rows, sequence |-> sequence]
    ELSE IF EmailTaken(rows, df[i].email)
    THEN [status |-> "IntegrityError",
          faculty |-> SubSeq(rows, 1, Len(rows) - (i - 1)),
          sequence |-> sequence - (i - 1)]
    ELSE InsertFrom(df, i + 1, Append(rows, TableRow(df[i], sequence)),
                    sequence + 1)

\* csv_to_sqlite up to create_database: the CSV is read, the table exists
RefreshStart ==
    /\ job.pc = "idle"
    /\ job.runs < MaxRefresh
    /\ IF csv.exists
       THEN /\ job' = [pc |-> "truncate", df |-> csv.data, runs |-> job.runs + 1]
            /\ db' = [db EXCEPT !.created = TRUE]
       ELSE /\ job' = [pc |-> "failed", df |-> <<>>, runs |-> job.runs + 1]
            /\ db' = db
    /\ UNCHANGED <<corpus, embFile, metaFile, build, api, sortStable, req, writes, csv, scraped, raw, run, http>>

\* truncate_faculty_table: DELETE FROM faculty, committed; sqlite_sequence
\* keeps its value
RefreshTruncateKeeps ==
    /\ job.pc = "truncate"
    /\ job' = [job EXCEPT !.pc = "insert"]
    /\ UNCHANGED <<corpus, embFile, metaFile, build, api, sortStable, req, writes, csv, db, scraped, raw, run, http>>
RefreshTruncate ==
    /\ job.pc = "truncate"
    /\ db' = [db EXCEPT !.faculty = <<>>]
    /\ job' = [job EXCEPT !.pc = "insert"]
    /\ UNCHANGED <<corpus, embFile, metaFile, build, api, sortStable, req, writes, csv, scraped, raw, run, http>>

\* insert_faculty_data(conn, df); conn.close()
RefreshInsert ==
    /\ job.pc = "insert"
    /\ LET r == InsertFrom(job.df, 1, db.faculty, db.sequence)
       IN  /\ db' = [db EXCEPT !.faculty = r.faculty, !.sequence = r.sequence]
           /\ job' = [job EXCEPT !.pc = IF r.status = "ok" THEN "done"
                                       ELSE "failed"]
    /\ UNCHANGED <<corpus, embFile, metaFile, build, api, sortStable, req, writes, csv, scraped, raw, run, http>>

\* clean_faculty_csv.py run again between two refreshes: df.to_csv writes
\* another cleaned CSV
CsvRewrite ==
    /\ job.pc = "idle"
    /\ job.runs >= 1
    /\ job.runs < MaxRefresh
    /\ \E rows \in Csvs : csv' = File(rows)
    /\ csv' # csv
    /\ UNCHANGED <<corpus, embFile, metaFile, build, api, sortStable, req, writes, db, job, scraped, raw, run, http>>

\* The process ends; the refresh can be run again
RefreshExit ==
    /\ job.pc \in {"done", "failed"}
    /\ job' = [job EXCEPT !.pc = "idle", !.df = <<>>]
    /\ UNCHANGED <<corpus, embFile, metaFile, build, api, sortStable, req, writes, csv, db, scraped, raw, run, http>>

\* normalize_text: " ".join(text.strip().split())
normalize_text(text) == Join(Split(Strip(text)))

\* extract_model_fields: id, name, faculty_type and the normalized text of
\* a record GET /faculty returns (names and types carry no outer blanks)
extract_model_fields(record) ==
    [id |-> record.id, name |-> record.name,
     faculty_type |-> record.faculty_type,
     text |-> normalize_text(record.text_for_embedding)]

\* GET /faculty?limit=..&offset=..: SELECT * FROM faculty LIMIT ? OFFSET ?;
\* "count" is the number of rows of this page
get_all_faculty(table, limit, offset) ==
    IF limit < LimitGe \/ limit > LimitLe \/ offset < 0
    THEN [status |-> "HTTP422", count |-> 0, data |-> <<>>]
    ELSE LET last == IF offset + limit < Len(table) THEN offset + limit ELSE Len(table)
             rows == SubSeq(table, offset + 1, last)
         IN  [status |-> "ok", count |-> Len(rows), data |-> rows]

\* The while loop of fetch_all_faculty: a page is requested, its records
\* are extracted, offset grows by API_LIMIT, and the loop ends on an empty
\* page or once offset >= total, total being the page's "count"
RECURSIVE FetchLoop(_, _, _)
FetchLoop(table, offset, all_faculty) ==
    LET response == get_all_faculty(table, API_LIMIT, offset)
        faculty_list == response.data
        total == response.count
    IN  IF response.status # "ok"
        THEN [status |-> response.status, data |-> <<>>]
        ELSE IF faculty_list = <<>>
        THEN [status |-> "ok", data |-> all_faculty]
        ELSE LET extracted == all_faculty \o
                     [i \in 1..Len(faculty_list) |->
                         extract_model_fields(faculty_list[i])]
             IN  IF offset + API_LIMIT >= total
                 THEN [status |-> "ok", data |-> extracted]
                 ELSE FetchLoop(table, offset + API_LIMIT, extracted)

fetch_all_faculty(table) == FetchLoop(table, 0, <<>>)

\* fetch_data.main: fetch_all_faculty() from the service over the table,
\* then save_to_json; a request that fails leaves the file as it was
FetchCorpus ==
    /\ db.created
    /\ fetch_all_faculty(db.faculty).status = "ok"
    /\ corpus' = File(fetch_all_faculty(db.faculty).data)
    /\ corpus' # corpus
    /\ UNCHANGED <<embFile, metaFile, build, api, sortStable, req, writes, pipeVars>>

-----------------------------------------------------------------------------
(* The process that serves: pipeline/recommender_api.py (module level),    *)
(* likewise recommender.main and frontend2/app.py                          *)

ApiStart == [pc |-> "start", embeddings |-> <<>>, metadata |-> <<>>, model |-> None]

\* No serving process: nothing has imported the module yet
ApiDown == [ApiStart EXCEPT !.pc = "down"]

\* uvicorn (or streamlit) starts and begins to import the module
ApiBoot ==
    /\ api.pc = "down"
    /\ api' = ApiStart
    /\ UNCHANGED <<corpus, embFile, metaFile, build, sortStable, req, writes, pipeVars>>

\* embeddings = load_embeddings(FACULTY_EMBEDDINGS_PATH)
LoadEmbeddings ==
    /\ api.pc = "start"
    /\ api' = IF embFile.exists
              THEN [api EXCEPT !.pc = "embeddingsLoaded",
                               !.embeddings = embFile.data]
              ELSE [ApiStart EXCEPT !.pc = "failed"]
    /\ UNCHANGED <<corpus, embFile, metaFile, build, sortStable, req, writes, pipeVars>>

\* load_metadata catching the missing file and going on with no records
LoadMetadataLenient ==
    /\ api.pc = "embeddingsLoaded"
    /\ api' = [api EXCEPT !.pc = "metadataLoaded",
                          !.metadata = IF metaFile.exists THEN metaFile.data ELSE <<>>]
    /\ UNCHANGED <<corpus, embFile, metaFile, build, sortStable, req, writes, pipeVars>>

\* metadata = load_metadata(FACULTY_META_PATH)
LoadMetadata ==
    /\ api.pc = "embeddingsLoaded"
    /\ api' = IF metaFile.exists
              THEN [api EXCEPT !.pc = "metadataLoaded",
                               !.metadata = metaFile.data]
              ELSE [ApiStart EXCEPT !.pc = "failed"]
    /\ UNCHANGED <<corpus, embFile, metaFile, build, sortStable, req, writes, pipeVars>>

\* model = SentenceTransformer(EMBEDDING_MODEL_NAME); the module is imported
LoadModel ==
    /\ api.pc = "metadataLoaded"
    /\ api' = [api EXCEPT !.pc = "ready", !.model = "SentenceTransformer"]
    /\ UNCHANGED <<corpus, embFile, metaFile, build, sortStable, req, writes, pipeVars>>

\* SentenceTransformer(EMBEDDING_MODEL_NAME) raises: the model cannot be had
LoadModelFails ==
    /\ api.pc = "metadataLoaded"
    /\ api' = [ApiStart EXCEPT !.pc = "failed"]
    /\ UNCHANGED <<corpus, embFile, metaFile, build, sortStable, req, writes, pipeVars>>

\* The import raised: the process is started again
ApiRestart ==
    /\ api.pc = "failed"
    /\ api' = ApiStart
    /\ UNCHANGED <<corpus, embFile, metaFile, build, sortStable, req, writes, pipeVars>>

-----------------------------------------------------------------------------
(* Requests *)

Slots == {"s1", "s2"}

Q_ML == <<"M", "L">>
Q_BLANK == <<" ", " ">>
Q_DLCV == <<"d","l"," ","f","o","r"," "," ","c","v">>
Q_X == <<"x">>

Queries == {Q_ML, Q_BLANK, Q_DLCV, Q_X}
TopKs == 0..(MaxCorpus + 1)
Filters == {None, "", "adjunct", "Adjunct"}

\* The arguments of the requests that run concurrently
ConcQueries == {Q_ML, Q_BLANK}
ConcTopKs == 0..MaxCorpus
ConcFilters == {None, "adjunct"}

\* What is typed at the prompt of recommender.main
CliQueries == {Q_ML, Q_DLCV}

ReqIdle ==
    [pc |-> "idle", via |-> "", at |-> "", query |-> <<>>, top_k |-> 0,
     faculty_type |-> None, encoder_inputs |-> <<>>, query_embedding |-> <<>>,
     out |-> Raised("")]

\* The route registered by a decorator placed above the module-level loads
ServingEarly == api.pc \in {"embeddingsLoaded", "metadataLoaded", "ready"}

\* The route (the search form) exists once the module-level loads are over
Serving == api.pc = "ready"

\* FastAPI's validation of q (min_length=2) and top_k (ge=1, le=20)
HttpValid(q, top_k) == Len(q) >= QMinLength /\ top_k >= TopKGe /\ top_k <= TopKLe

\* A call arrives and runs up to the embedded query (lines 138-139); a
\* request the HTTP layer rejects never reaches recommend_faculty
Call(s, via, q, top_k, faculty_type) ==
    /\ Serving
    /\ req[s].pc = "idle"
    /\ req' = [req EXCEPT ![s] =
                 IF via = "http" /\ ~HttpValid(q, top_k)
                 THEN [ReqIdle EXCEPT !.pc = "done", !.via = via, !.query = q,
                                      !.at = api.pc, !.top_k = top_k,
                                      !.faculty_type = faculty_type,
                                      !.out = Raised("HTTP422")]
                 ELSE [ReqIdle EXCEPT !.pc = "encoded", !.via = via, !.query = q,
                                      !.at = api.pc, !.top_k = top_k,
                                      !.faculty_type = faculty_type,
                                      !.encoder_inputs = EncoderInputs(q),
                                      !.query_embedding = QueryEmbedding(q)]]
    /\ UNCHANGED <<corpus, embFile, metaFile, build, api, sortStable, writes, pipeVars>>

\* GET /recommend/?q=..&top_k=..&faculty_type=..
HttpRecommend(s) ==
    \E q \in Queries, k \in TopKs, f \in Filters : Call(s, "http", q, k, f)

HttpRecommendConc(s) ==
    \E q \in ConcQueries, k \in ConcTopKs, f \in ConcFilters :
        Call(s, "http", q, k, f)

\* A request sent while nothing serves the route: requests.get raises
RequestRefused(s) ==
    /\ ~Serving
    /\ req[s].pc = "idle"
    /\ \E q \in ConcQueries, k \in ConcTopKs, f \in ConcFilters :
          req' = [req EXCEPT ![s] =
                     [ReqIdle EXCEPT !.pc = "done", !.via = "http", !.query = q,
                                     !.at = api.pc, !.top_k = k,
                                     !.faculty_type = f,
                                     !.out = Raised("ConnectionError")]]
    /\ UNCHANGED <<corpus, embFile, metaFile, build, api, sortStable, writes, pipeVars>>

\* recommend_faculty called as a function
DirectCall(s) ==
    \E q \in Queries, k \in TopKs, f \in Filters : Call(s, "direct", q, k, f)

\* recommender.main: query = input().strip(); recommend_faculty(.., top_k=5)
CliQuery(s) ==
    \E q \in CliQueries : Call(s, "direct", Strip(q), CLI_TOP_K, None)

\* The query embedding kept in a module-level global that every call
\* overwrites: a call ranks with what another call has just embedded
QueryEmbeddingShared(s) ==
    IF \E t \in Slots \ {s} : req[t].pc = "encoded"
    THEN req[CHOOSE t \in Slots \ {s} : req[t].pc = "encoded"].query_embedding
    ELSE req[s].query_embedding

\* The query embedding the call in slot s ranks with: its own local
QueryEmbeddingOf(s) == req[s].query_embedding

\* The filter applied by deleting the other records from the metadata list
\* itself before ranking
RankFilteringInPlace(s) ==
    /\ req[s].pc = "encoded"
    /\ LET Keep(faculty) == ~FilterSkips(faculty, req[s].faculty_type)
           kept == SelectSeq(api.metadata, Keep)
       IN  /\ api' = [api EXCEPT !.metadata = kept]
           /\ req' = [req EXCEPT ![s].pc = "done",
                                 ![s].out =
                                     RankAndAssemble(QueryEmbeddingOf(s),
                                                     api.embeddings, api.metadata,
                                                     req[s].top_k, req[s].faculty_type,
                                                     sortStable, InitialResults)]
    /\ UNCHANGED <<corpus, embFile, metaFile, build, sortStable, writes, pipeVars>>

\* The rest of recommend_faculty (lines 141-167) against the loaded store
Rank(s) ==
    /\ req[s].pc = "encoded"
    /\ req' = [req EXCEPT ![s].pc = "done",
                          ![s].out =
                              RankAndAssemble(QueryEmbeddingOf(s),
                                              api.embeddings, api.metadata,
                                              req[s].top_k, req[s].faculty_type,
                                              sortStable, InitialResults)]
    /\ UNCHANGED <<corpus, embFile, metaFile, build, api, sortStable, writes, pipeVars>>

\* The caller has the outcome
Return(s) ==
    /\ req[s].pc = "done"
    /\ req' = [req EXCEPT ![s] = ReqIdle]
    /\ UNCHANGED <<corpus, embFile, metaFile, build, api, sortStable, writes, pipeVars>>

-----------------------------------------------------------------------------
(* Specifications *)

\* One serving process over the store a finished build left on disk
Init ==
    /\ \E c \in FullCorpora(Profiles) :
          /\ corpus = File(c)
          /\ embFile = File(BuiltEmbeddings(c))
          /\ metaFile = File(BuiltMetadata(c))
    /\ build = BuildIdle
    /\ api = ApiStart
    /\ sortStable \in BOOLEAN
    /\ req = [s \in Slots |-> ReqIdle]
    /\ writes = 0
    /\ PipeIdle

Next ==
    \/ LoadEmbeddings
    \/ LoadMetadata
    \/ LoadModel
    \/ HttpRecommend("s1")
    \/ DirectCall("s1")
    \/ Rank("s1")
    \/ Return("s1")

Spec == Init /\ [][Next]_vars

\* str.upper() of a lower-case word
UpperWord(w) == [j \in 1..Len(w) |-> UPPER[CHOOSE i \in 1..Len(LOWER) : LOWER[i] = w[j]]]

\* Queries around every key of ACRONYM_MAP: the key, the key in capitals,
\* the key after another word with blanks and a tab around it, and the
\* expansion itself
ExpandQueries ==
    UNION { { ACRONYM_MAP[i][1],
              UpperWord(ACRONYM_MAP[i][1]),
              W_for \o <<" ", " ">> \o ACRONYM_MAP[i][1] \o <<"\t">>,
              ACRONYM_MAP[i][2] } : i \in 1..Len(ACRONYM_MAP) }

\* recommend_faculty called with such a query
ExpandCall(s) == \E q \in ExpandQueries : Call(s, "direct", q, TopKGe, None)

\* Calls of recommend_faculty, one at a time, on a loaded store
NextExpand ==
    \/ LoadEmbeddings
    \/ LoadMetadata
    \/ LoadModel
    \/ ExpandCall("s1")
    \/ Rank("s1")
    \/ Return("s1")

\* The profiles of the stores the concurrent requests are served from
ConcProfiles ==
    { [faculty_type |-> "regular", text |-> T_ML],
      [faculty_type |-> "adjunct", text |-> T_ML],
      [faculty_type |-> "adjunct", text |-> T_CV] }

InitConc ==
    /\ \E c \in FullCorpora(ConcProfiles) :
          /\ corpus = File(c)
          /\ embFile = File(BuiltEmbeddings(c))
          /\ metaFile = File(BuiltMetadata(c))
    /\ build = BuildIdle
    /\ api = ApiStart
    /\ sortStable \in BOOLEAN
    /\ req = [s \in Slots |-> ReqIdle]
    /\ writes = 0
    /\ PipeIdle

\* Concurrent HTTP requests against the one loaded store
NextConc ==
    \/ LoadEmbeddings
    \/ LoadMetadata
    \/ LoadModel
    \/ \E s \in Slots : HttpRecommendConc(s)
    \/ \E s \in Slots : Rank(s)
    \/ \E s \in Slots : Return(s)

SpecConc == InitConc /\ [][NextConc]_vars

SpecExpand == InitConc /\ [][NextExpand]_vars

\* The offline jobs and the serving process side by side on one disk
InitBuild ==
    /\ \E c \in BuildCorpora : corpus = File(c)
    /\ embFile = NoFile
    /\ metaFile = NoFile
    /\ build = BuildIdle
    /\ api = ApiStart
    /\ sortStable \in BOOLEAN
    /\ req = [s \in Slots |-> ReqIdle]
    /\ writes = 0
    /\ PipeIdle

NextBuild ==
    \/ WriteCorpus
    \/ BuildStart
    \/ BuildSaveEmbeddings
    \/ BuildSaveMetadata
    \/ BuildExit
    \/ LoadEmbeddings
    \/ LoadMetadata
    \/ LoadModel
    \/ ApiRestart
    \/ CliQuery("s1")
    \/ Rank("s1")
    \/ Return("s1")

SpecBuild == InitBuild /\ [][NextBuild]_vars

\* The offline jobs alone: the corpus is written, the store is built
NextProducer ==
    \/ WriteCorpus
    \/ BuildStart
    \/ BuildSaveEmbeddings
    \/ BuildSaveMetadata
    \/ BuildExit

SpecProducer == InitBuild /\ [][NextProducer]_vars

\* The serving process from before its start, on a disk where the store
\* may be absent, partly written or complete
InitLifecycle ==
    /\ \E c \in BuildCorpora :
          /\ corpus = File(c)
          /\ embFile \in {NoFile} \cup
                 (IF Collect(c).status = "ok" THEN {File(BuiltEmbeddings(c))} ELSE {})
          /\ metaFile \in {NoFile} \cup
                 (IF Collect(c).status = "ok" THEN {File(BuiltMetadata(c))} ELSE {})
    /\ build = BuildIdle
    /\ api = ApiDown
    /\ sortStable \in BOOLEAN
    /\ req = [s \in Slots |-> ReqIdle]
    /\ writes = 0
    /\ PipeIdle

NextLifecycle ==
    \/ ApiBoot
    \/ LoadEmbeddings
    \/ LoadMetadata
    \/ LoadModel
    \/ LoadModelFails
    \/ ApiRestart
    \/ BuildStart
    \/ BuildSaveEmbeddings
    \/ BuildSaveMetadata
    \/ BuildExit
    \/ RequestRefused("s1")
    \/ HttpRecommendConc("s1")
    \/ Rank("s1")
    \/ Return("s1")

SpecLifecycle == InitLifecycle /\ [][NextLifecycle]_vars

\* The data pipeline from the cleaned CSV to the store: the table is
\* refreshed, the corpus fetched from it, the store built
InitPipeline ==
    /\ corpus = NoFile
    /\ embFile = NoFile
    /\ metaFile = NoFile
    /\ build = BuildIdle
    /\ api = ApiDown
    /\ sortStable \in BOOLEAN
    /\ req = [s \in Slots |-> ReqIdle]
    /\ writes = 0
    /\ \E rows \in Csvs : csv = File(rows)
    /\ scraped = NoScraped
    /\ raw = NoFile
    /\ run = RunIdle
    /\ http = HttpIdle
    /\ db = NoDb
    /\ job = JobIdle

NextPipeline ==
    \/ RefreshStart
    \/ RefreshTruncate
    \/ RefreshInsert
    \/ RefreshExit
    \/ CsvRewrite
    \/ FetchCorpus
    \/ BuildStart
    \/ BuildSaveEmbeddings
    \/ BuildSaveMetadata
    \/ BuildExit

SpecPipeline == InitPipeline /\ [][NextPipeline]_vars

\* A table of n rows, as n inserts into a new database leave it
BigTable(n) ==
    [k \in 1..n |->
        [id |-> k, name |-> NameOf(k), email |-> <<"m", ToString(k)>>,
         faculty_type |-> "regular", text_for_embedding |-> <<>>]]

\* The corpus fetch alone, over a table of any size up to MaxTable
InitFetch ==
    /\ corpus = NoFile
    /\ embFile = NoFile
    /\ metaFile = NoFile
    /\ build = BuildIdle
    /\ api = ApiDown
    /\ sortStable = TRUE
    /\ req = [s \in Slots |-> ReqIdle]
    /\ writes = 0
    /\ csv = NoFile
    /\ scraped = NoScraped
    /\ raw = NoFile
    /\ run = RunIdle
    /\ http = HttpIdle
    /\ \E n \in 0..MaxTable :
          db = [created |-> TRUE, faculty |-> BigTable(n), sequence |-> n]
    /\ job = JobIdle

NextFetch == FetchCorpus

SpecFetch == InitFetch /\ [][NextFetch]_vars

-----------------------------------------------------------------------------
(* pipeline.py and its steps: scrape, json_to_csv.py, clean_faculty_csv.py *)

T_AI == <<"A", "I">>
T_EMPTY_LIST == <<"[", "]">>
W_null == <<"n","u","l","l">>
W_None == <<"N","o","n","e">>

\* sep.join(items)
RECURSIVE JoinWith(_, _)
JoinWith(items, sep) ==
    IF items = <<>> THEN <<>>
    ELSE IF Len(items) = 1 THEN items[1]
    ELSE items[1] \o sep \o JoinWith(Tail(items), sep)

\* str.split(c): the parts between the occurrences of c, empty ones kept
RECURSIVE SplitOn(_, _)
SplitOn(s, c) ==
    IF \E i \in 1..Len(s) : s[i] = c
    THEN LET i == CHOOSE i \in 1..Len(s) :
                      s[i] = c /\ \A j \in 1..(i - 1) : s[j] # c
         IN  <<SubSeq(s, 1, i - 1)>> \o SplitOn(SubSeq(s, i + 1, Len(s)), c)
    ELSE <<s>>

\* json_to_csv.clean_list: " | ".join of the stripped non-empty strings
clean_list(values) ==
    LET kept == SelectSeq(values, LAMBDA v : v # NA /\ Strip(v) # <<>>)
    IN  JoinWith([i \in 1..Len(kept) |-> Strip(kept[i])], <<" ", "|", " ">>)

\* process_faculty_record: a list becomes clean_list of it, None the empty
\* cell, anything else str(value).strip(); names and type names are words
\* without blanks
StrCell(value) == IF value = NA THEN <<>> ELSE Strip(value)

process_faculty_record(faculty, source_file) ==
    [name |-> faculty.name,
     email |-> StrCell(faculty.email),
     faculty_type |-> faculty.faculty_type,
     biography |-> clean_list(faculty.biography),
     specialization |-> clean_list(faculty.specialization),
     research |-> clean_list(faculty.research),
     teaching |-> clean_list(faculty.teaching),
     source_file |-> source_file]

\* sorted(input_dir.glob("*.json"))
JSON_ORDER ==
    <<"adjunct", "distinguished", "faculty", "international_adjunct", "practice">>

\* convert_json_dir_to_csv: the rows of every file, files in sorted order
RECURSIVE RowsFrom(_, _)
RowsFrom(files, k) ==
    IF k > Len(JSON_ORDER) THEN <<>>
    ELSE LET f == files[JSON_ORDER[k]]
         IN  [i \in 1..Len(f.data) |->
                 process_faculty_record(f.data[i], JSON_ORDER[k])]
             \o RowsFrom(files, k + 1)

convert_json_dir_to_csv(files) == RowsFrom(files, 1)

\* pd.read_csv: a cell that is empty or spells a missing value is NaN
NA_VALUES == {<<>>, W_null, W_None, <<"N","A">>, <<"n","a","n">>}
read_csv(cell) == IF cell \in NA_VALUES THEN NA ELSE cell

\* df.replace(to_replace=["", " ", "null", "None"], value=pd.NA)
NULL_LIKE == {<<>>, <<" ">>, W_null, W_None}
ReplaceNullLike(cell) == IF cell \in NULL_LIKE THEN NA ELSE cell

\* re.sub(r"\s+", " ", text)
RECURSIVE CollapseWhitespace(_)
CollapseWhitespace(text) ==
    IF text = <<>> THEN <<>>
    ELSE IF text[1] \in Whitespace
    THEN <<" ">> \o CollapseWhitespace(LStrip(text))
    ELSE <<text[1]>> \o CollapseWhitespace(Tail(text))

\* clean_text: None for what is no str, else whitespace collapsed and stripped
clean_text(text) ==
    IF text = NA THEN NA ELSE Strip(CollapseWhitespace(text))

\* clean_list_items: the cleaned items that are truthy and longer than
\* ITEM_LEN_OVER characters
clean_list_items(items) ==
    LET cleaned == [i \in 1..Len(items) |-> clean_text(items[i])]
    IN  SelectSeq(cleaned,
            LAMBDA item : item # NA /\ item # <<>> /\ Len(item) > ITEM_LEN_OVER)

\* json.loads of a cell that holds no quote, digit, comma or JSON literal:
\* it parses only if it is brackets nested in brackets, and then the list
\* it gives has no string in it
RECURSIVE IsJsonList(_)
IsJsonList(v) ==
    /\ Len(v) >= 2
    /\ v[1] = "["
    /\ v[Len(v)] = "]"
    /\ LET inner == Strip(SubSeq(v, 2, Len(v) - 1))
       IN  inner = <<>> \/ IsJsonList(inner)

json_loads(v) ==
    [ok |-> IsJsonList(v),
     items |-> IF Strip(SubSeq(v, 2, Len(v) - 1)) = <<>> THEN <<>> ELSE <<NA>>]

\* parse_list_field: NaN is the empty list; a cell in brackets that parses
\* as JSON is that list; anything else is split at "|"
parse_list_field(value) ==
    IF value = NA THEN <<>>
    ELSE LET v == Strip(value)
             parts == SplitOn(v, "|")
         IN  IF v # <<>> /\ v[1] = "[" /\ v[Len(v)] = "]" /\ json_loads(v).ok
             THEN clean_list_items(json_loads(v).items)
             ELSE clean_list_items([i \in 1..Len(parts) |-> Strip(parts[i])])

\* One row after the column-wise steps of clean_faculty_csv: read_csv,
\* replace, clean_text on the text columns, parse_list_field on the list
\* columns
CleanRow(row) ==
    [name |-> row.name,
     email |-> clean_text(ReplaceNullLike(read_csv(row.email))),
     faculty_type |-> row.faculty_type,
     biography |-> parse_list_field(ReplaceNullLike(read_csv(row.biography))),
     specialization |->
         parse_list_field(ReplaceNullLike(read_csv(row.specialization))),
     research |-> parse_list_field(ReplaceNullLike(read_csv(row.research))),
     teaching |-> parse_list_field(ReplaceNullLike(read_csv(row.teaching))),
     source_file |-> row.source_file]

\* df.drop_duplicates(subset=["email"], keep="first"); missing emails are
\* equal to each other
RECURSIVE DropDuplicatesFromNaApart(_, _, _)
DropDuplicatesFromNaApart(df, i, kept) ==
    IF i > Len(df) THEN kept
    ELSE IF df[i].email # NA /\ \E k \in 1..Len(kept) : kept[k].email = df[i].email
    THEN DropDuplicatesFromNaApart(df, i + 1, kept)
    ELSE DropDuplicatesFromNaApart(df, i + 1, Append(kept, df[i]))
RECURSIVE DropDuplicatesFrom(_, _, _)
DropDuplicatesFrom(df, i, kept) ==
    IF i > Len(df) THEN kept
    ELSE IF \E k \in 1..Len(kept) : kept[k].email = df[i].email
    THEN DropDuplicatesFrom(df, i + 1, kept)
    ELSE DropDuplicatesFrom(df, i + 1, Append(kept, df[i]))

drop_duplicates_keep_last(df) == Reversed(DropDuplicatesFrom(Reversed(df), 1, <<>>))
drop_duplicates(df) == DropDuplicatesFrom(df, 1, <<>>)

\* create_text_for_embedding, for one row
create_text_for_embedding(row) ==
    clean_text(Join(row.biography) \o <<" ">> \o Join(row.specialization)
               \o <<" ">> \o Join(row.research) \o <<" ">> \o Join(row.teaching))

\* clean_faculty_csv: the rows of the cleaned CSV for the rows of the raw one
\* (a list column is written as the JSON text of the list kept here)
clean_faculty_csv(rows) ==
    LET df == drop_duplicates([i \in 1..Len(rows) |-> CleanRow(rows[i])])
    IN  [i \in 1..Len(df) |->
            [name |-> df[i].name, email |-> df[i].email,
             faculty_type |-> df[i].faculty_type,
             biography |-> df[i].biography,
             specialization |-> df[i].specialization,
             research |-> df[i].research, teaching |-> df[i].teaching,
             source_file |-> df[i].source_file,
             text_for_embedding |-> create_text_for_embedding(df[i])]]

\* What a profile page can hold: the e-mail text as it stands in the page
\* (or none), and the lists the spider's clean_list leaves
ScrapedProfiles ==
    { [name |-> "n1", email |-> MAIL1, biography |-> <<>>,
       specialization |-> <<T_ML>>, research |-> <<>>, teaching |-> <<>>],
      [name |-> "n2", email |-> <<" ">> \o MAIL1, biography |-> <<>>,
       specialization |-> <<T_AI, T_CV>>, research |-> <<T_ML>>,
       teaching |-> <<>>],
      [name |-> "n3", email |-> NA, biography |-> <<>>,
       specialization |-> <<>>, research |-> <<>>, teaching |-> <<>>],
      [name |-> "n4", email |-> <<" ", " ">>, biography |-> <<>>,
       specialization |-> <<T_EMPTY_LIST>>, research |-> <<>>,
       teaching |-> <<>>],
      [name |-> "n5", email |-> MAIL2, biography |-> <<>>,
       specialization |-> <<T_CV>>, research |-> <<T_AI>>,
       teaching |-> <<>>],
      [name |-> "n6", email |-> W_None, biography |-> <<>>,
       specialization |-> <<>>, research |-> <<>>, teaching |-> <<>>] }

\* parse_faculty_profile: the item of one profile page
FacultyItem(p, faculty_type) ==
    [name |-> p.name, email |-> p.email, faculty_type |-> faculty_type,
     biography |-> p.biography, specialization |-> p.specialization,
     research |-> p.research, teaching |-> p.teaching]

\* Items scraped so far, over all files
RECURSIVE ScrapedCount(_, _)
ScrapedCount(files, k) ==
    IF k > Len(JSON_ORDER) THEN 0
    ELSE Len(files[JSON_ORDER[k]].data) + ScrapedCount(files, k + 1)

\* The exit codes of a child process
ExitCodes == {0, 1}

\* subprocess.run(.., check=True) raises CalledProcessError on a non-zero
\* exit code
StepFailsNever(code) == FALSE
StepFails(code) == code # 0

\* The steps main runs for its arguments: all four with --all, else the
\* flagged ones in the order of its if statements
STEPS == <<"scrape", "json_to_csv", "clean_csv", "to_sqlite">>
Args ==
    {[all |-> TRUE, flags |-> {}]} \cup
    {[all |-> FALSE, flags |-> f] :
        f \in {{}, {"scrape"}, {"json_to_csv"}, {"clean_csv"}, {"to_sqlite"}}}
StepsOf(args) ==
    IF args.all THEN STEPS ELSE SelectSeq(STEPS, LAMBDA st : st \in args.flags)

\* main goes on to its next statement: the next step, or the end, where
\* --all prints that the full pipeline completed
Advance(r) ==
    IF r.todo # <<>> THEN r
    ELSE [r EXCEPT !.pc = "done", !.message = r.all]

StepStarted(r, step, arg) ==
    [r EXCEPT !.started = Append(@, [step |-> step, arg |-> arg])]

\* The child has exited with code; last tells whether the run_* function
\* returns with it
StepReturned(r, code, last) ==
    LET r1 == [r EXCEPT !.codes = Append(@, code)]
    IN  IF StepFails(code) THEN [r1 EXCEPT !.pc = "failed"]
        ELSE IF ~last THEN [r1 EXCEPT !.i = @ + 1]
        ELSE Advance([r1 EXCEPT !.i = 1, !.todo = Tail(@)])

AtStep(step) ==
    run.pc = "running" /\ run.todo # <<>> /\ Head(run.todo) = step

\* python pipeline.py <arguments>
RunMain ==
    /\ run.pc = "idle"
    /\ \E args \in Args :
          run' = Advance([RunIdle EXCEPT !.pc = "running", !.all = args.all,
                                         !.todo = StepsOf(args)])
    /\ UNCHANGED <<corpus, embFile, metaFile, build, api, sortStable, req, writes,
                   csv, db, job, scraped, raw, http>>

\* run_scraper, one scrapy crawl: the items of the listing's profile pages
\* are written to <faculty_type>.json
RunScraper ==
    /\ AtStep("scrape")
    /\ LET t == FACULTY_TYPES[run.i]
           room == MaxCsv - ScrapedCount(scraped, 1)
       IN  \E code \in ExitCodes :
             /\ IF code = 0
                THEN \E n \in 0..room : \E ps \in [1..n -> ScrapedProfiles] :
                        scraped' = [scraped EXCEPT ![t] =
                            File([i \in 1..n |-> FacultyItem(ps[i], t)])]
                ELSE scraped' = scraped
             /\ run' = StepReturned(StepStarted(run, "scrape", t), code,
                                    run.i = Len(FACULTY_TYPES))
    /\ UNCHANGED <<corpus, embFile, metaFile, build, api, sortStable, req, writes,
                   csv, db, job, raw, http>>

\* run_json_to_csv: json_to_csv.py writes the raw CSV, or ends on a file
\* that does not load
RunJsonToCsv ==
    /\ AtStep("json_to_csv")
    /\ \E code \in ExitCodes :
          /\ raw' = IF code = 0 THEN File(convert_json_dir_to_csv(scraped))
                    ELSE raw
          /\ run' = StepReturned(StepStarted(run, "json_to_csv", ""), code, TRUE)
    /\ UNCHANGED <<corpus, embFile, metaFile, build, api, sortStable, req, writes,
                   csv, db, job, scraped, http>>

\* run_clean_csv: clean_faculty_csv.py writes the cleaned CSV, or raises
\* FileNotFoundError when there is no raw CSV
RunCleanCsv ==
    /\ AtStep("clean_csv")
    /\ csv' = IF raw.exists THEN File(clean_faculty_csv(raw.data)) ELSE csv
    /\ run' = StepReturned(StepStarted(run, "clean_csv", ""),
                           IF raw.exists THEN 0 ELSE 1, TRUE)
    /\ UNCHANGED <<corpus, embFile, metaFile, build, api, sortStable, req, writes,
                   db, job, scraped, raw, http>>

\* run_csv_to_sqlite: the child csv_to_sqlite.py is started
RunCsvToSqlite ==
    /\ AtStep("to_sqlite")
    /\ job.pc = "idle"
    /\ run' = [StepStarted(run, "to_sqlite", "") EXCEPT !.pc = "import"]
    /\ UNCHANGED <<corpus, embFile, metaFile, build, api, sortStable, req, writes,
                   csv, db, job, scraped, raw, http>>

\* The child at work
RunImport ==
    /\ run.pc = "import"
    /\ RefreshStart \/ RefreshTruncate \/ RefreshInsert

\* The child has ended: code 0 after the refresh, 1 after an exception
RunCsvToSqliteReturns ==
    /\ run.pc = "import"
    /\ job.pc \in {"done", "failed"}
    /\ job' = [job EXCEPT !.pc = "idle", !.df = <<>>]
    /\ run' = StepReturned([run EXCEPT !.pc = "running"],
                           IF job.pc = "done" THEN 0 ELSE 1, TRUE)
    /\ UNCHANGED <<corpus, embFile, metaFile, build, api, sortStable, req, writes,
                   csv, db, scraped, raw, http>>

\* One run of pipeline.py on a machine with nothing on disk yet
InitRun ==
    /\ corpus = NoFile
    /\ embFile = NoFile
    /\ metaFile = NoFile
    /\ build = BuildIdle
    /\ api = ApiDown
    /\ sortStable = TRUE
    /\ req = [s \in Slots |-> ReqIdle]
    /\ writes = 0
    /\ PipeIdle

NextRun ==
    \/ RunMain
    \/ RunScraper
    \/ RunJsonToCsv
    \/ RunCleanCsv
    \/ RunCsvToSqlite
    \/ RunImport
    \/ RunCsvToSqliteReturns

SpecRun == InitRun /\ [][NextRun]_vars

-----------------------------------------------------------------------------
(* The data API of src/main.py *)

\* The routes in the order of their @app.get decorators; a segment in
\* braces is a path parameter
ROUTES ==
    << [path |-> <<"faculty">>, endpoint |-> "get_all_faculty"],
       [path |-> <<"faculty", "{faculty_id}">>, endpoint |-> "get_faculty_by_id"],
       [path |-> <<"faculty", "search">>, endpoint |-> "search_faculty"] >>

\* A route's path matches a request path of as many segments when every
\* segment is the same or the route's segment is a parameter
PathMatches(route_path, path) ==
    /\ Len(route_path) = Len(path)
    /\ \A i \in 1..Len(path) :
          route_path[i] = path[i] \/ route_path[i] = "{faculty_id}"

\* The router takes the first route that matches; 0 when none does
Dispatch(routes, path) ==
    IF \E i \in 1..Len(routes) : PathMatches(routes[i].path, path)
    THEN CHOOSE i \in 1..Len(routes) :
            /\ PathMatches(routes[i].path, path)
            /\ \A j \in 1..(i - 1) : ~PathMatches(routes[j].path, path)
    ELSE 0

\* faculty_id: int: the segment must spell an integer
IsIntText(segment) == \E n \in 0..(MaxCsv + 1) : ToString(n) = segment
IntOf(segment) == CHOOSE n \in 0..(MaxCsv + 1) : ToString(n) = segment

\* value LIKE '%' || q || '%'
Contains(text, q) ==
    \E i \in 1..(Len(text) - Len(q) + 1) : SubSeq(text, i, i + Len(q) - 1) = q

\* parse_json_fields, for the list column of the model's rows
parse_json_fields(record) ==
    [record EXCEPT !.specialization =
        IF @ # NA /\ @ # <<>> /\ json_loads(@).ok THEN json_loads(@).items
        ELSE <<>>]

Response(endpoint, status, body) ==
    [pc |-> "done", endpoint |-> endpoint, status |-> status, body |-> body]

\* get_all_faculty of src/main.py
main_get_all_faculty(table, limit, offset) ==
    LET page == get_all_faculty(table, limit, offset)
    IN  IF page.status # "ok" THEN Response("get_all_faculty", 422, <<>>)
        ELSE Response("get_all_faculty", 200,
                 [count |-> page.count, limit |-> limit, offset |-> offset,
                  data |-> [i \in 1..Len(page.data) |->
                               parse_json_fields(page.data[i])]])

\* get_faculty_by_id: 422 for a segment that is no integer, 404 for an id
\* no row has
get_faculty_by_id(table, segment) ==
    IF ~IsIntText(segment) THEN Response("get_faculty_by_id", 422, <<>>)
    ELSE LET rows == SelectSeq(table, LAMBDA r : r.id = IntOf(segment))
         IN  IF rows = <<>> THEN Response("get_faculty_by_id", 404, <<>>)
             ELSE Response("get_faculty_by_id", 200, parse_json_fields(rows[1]))

\* search_faculty: q is required and has at least QMinLength characters
search_faculty(table, q) ==
    IF q = NA \/ Len(q) < QMinLength THEN Response("search_faculty", 422, <<>>)
    ELSE LET rows == SelectSeq(table, LAMBDA r :
                         \/ Contains(Lower(r.name), Lower(q))
                         \/ Contains(Lower(r.specialization), Lower(q))
                         \/ Contains(Lower(r.text_for_embedding), Lower(q)))
         IN  Response("search_faculty", 200,
                 [query |-> q, count |-> Len(rows),
                  data |-> [i \in 1..Len(rows) |-> parse_json_fields(rows[i])]])

\* The rows the API is asked about
ApiRows ==
    { [name |-> <<"A", "n", "n">>, email |-> MAIL1, faculty_type |-> "regular",
       specialization |-> T_EMPTY_LIST, text_for_embedding |-> T_CV],
      [name |-> <<"B", "o", "b">>, email |-> MAIL2, faculty_type |-> "adjunct",
       specialization |-> T_EMPTY_LIST, text_for_embedding |-> T_ML] }

ApiTables ==
    { [i \in 1..Len(rows) |->
          [id |-> i, name |-> rows[i].name, email |-> rows[i].email,
           faculty_type |-> rows[i].faculty_type,
           specialization |-> rows[i].specialization,
           text_for_embedding |-> rows[i].text_for_embedding]] :
      rows \in { r \in UNION { [1..n -> ApiRows] : n \in 0..MaxCsv } :
                    \A i, k \in 1..Len(r) : i # k => r[i] # r[k] } }

\* The requests made
Paths ==
    { <<"faculty">>, <<"faculty", "search">>, <<"faculty", "1">>,
      <<"faculty", "2">>, <<"faculty", "abc">>, <<"staff">> }
SearchTexts == { NA, <<"a">>, <<"V", "I">>, <<"n", "n">>, <<"z", "z">> }
Limits == { 0, 1, API_LIMIT, API_LIMIT + 1 }
Offsets == { 0, 1 }

\* GET path?q=..&limit=..&offset=..: the first matching route's endpoint is
\* called with the parameters it declares
HttpGet ==
    /\ db.created
    /\ \E path \in Paths, q \in SearchTexts, limit \in Limits, offset \in Offsets :
          LET r == Dispatch(ROUTES, path)
              endpoint == IF r = 0 THEN "" ELSE ROUTES[r].endpoint
              response ==
                  CASE endpoint = "get_all_faculty" ->
                          main_get_all_faculty(db.faculty, limit, offset)
                    [] endpoint = "get_faculty_by_id" ->
                          get_faculty_by_id(db.faculty, path[2])
                    [] endpoint = "search_faculty" ->
                          search_faculty(db.faculty, q)
                    [] OTHER -> Response("", 404, <<>>)
          IN  http' = [request |-> [path |-> path, q |-> q, limit |-> limit,
                                   offset |-> offset],
                       response |-> response]
    /\ UNCHANGED <<corpus, embFile, metaFile, build, api, sortStable, req, writes,
                   csv, db, job, scraped, raw, run>>

InitRoutes ==
    /\ corpus = NoFile
    /\ embFile = NoFile
    /\ metaFile = NoFile
    /\ build = BuildIdle
    /\ api = ApiDown
    /\ sortStable = TRUE
    /\ req = [s \in Slots |-> ReqIdle]
    /\ writes = 0
    /\ csv = NoFile
    /\ \E table \in ApiTables :
          db = [created |-> TRUE, faculty |-> table, sequence |-> Len(table)]
    /\ job = JobIdle
    /\ scraped = NoScraped
    /\ raw = NoFile
    /\ run = RunIdle
    /\ http = HttpIdle

NextRoutes == HttpGet

SpecRoutes == InitRoutes /\ [][NextRoutes]_vars

-----------------------------------------------------------------------------
(* Properties *)

Min(a, b) == IF a <= b THEN a ELSE b

\* The call in slot s went through recommend_faculty and is over
Finished(s) == req[s].pc = "done" /\ req[s].out.status # "HTTP422"
ReturnedOk(s) == req[s].pc = "done" /\ req[s].out.status = "ok"

\* C1: every store build_embeddings.main has written is index-aligned: as
\* many metadata entries as embedding rows, and row i is the encoding of
\* the text of metadata entry i
C1_StoreAligned ==
    build.pc = "done" =>
        /\ embFile.exists /\ metaFile.exists
        /\ Len(metaFile.data) = Len(embFile.data)
        /\ \A i \in 1..Len(embFile.data) :
              /\ i \in DOMAIN metaFile.data
              /\ embFile.data[i] =
                     Encode(metaFile.data[i].text, EMBEDDING_NORMALIZE)

\* A finished build that skipped the first record and kept the second, on
\* top of the store of an earlier build
C1_Witness ==
    /\ build.pc = "done"
    /\ writes = 1
    /\ Len(metaFile.data) = 1
    /\ Len(embFile.data) = 1
    /\ metaFile.data[1].id = 2
    /\ metaFile.data[1].text # <<>>

\* C2: a persisted pair whose lengths differ, or with a record lacking id
\* or name, never gets loaded (loading fails instead), and no call is
\* served from a pair of different lengths
C2_CorruptStoreRejected ==
    /\ api.pc \in {"metadataLoaded", "ready"} =>
          /\ Len(api.metadata) = Len(api.embeddings)
          /\ \A i \in 1..Len(api.metadata) :
                {"id", "name"} \subseteq DOMAIN api.metadata[i]
    /\ \A s \in Slots :
          req[s].pc \in {"encoded", "done"} =>
              Len(api.metadata) = Len(api.embeddings)

\* The stored records the filter selects: all of them without a filter
Matching(metadata, faculty_type) ==
    { i \in 1..Len(metadata) :
        faculty_type = None \/ metadata[i].faculty_type = faculty_type }

\* C3: with top_k >= 1, recommend_faculty returns exactly
\* min(top_k, number of stored records matching the filter) results
C3_TopKBound ==
    \A s \in Slots :
        (Finished(s) /\ req[s].top_k >= 1) =>
            /\ req[s].out.status = "ok"
            /\ Len(req[s].out.results) =
                   Min(req[s].top_k,
                       Cardinality(Matching(api.metadata, req[s].faculty_type)))

\* C4: called with a filter value f, every returned record's stored
\* faculty_type equals f
C4_FilterExact ==
    \A s \in Slots :
        (ReturnedOk(s) /\ req[s].faculty_type # None) =>
            \A p \in 1..Len(req[s].out.results) :
                req[s].out.results[p].faculty_type = req[s].faculty_type

\* The full-precision scores of the call in slot s
ScoresOf(s) == cosine_similarity(req[s].query_embedding, api.embeddings)

\* The store index of the record with this id
IndexOfId(id) == CHOOSE i \in 1..Len(api.metadata) : api.metadata[i].id = id

\* The store indices of the returned records, in returned order
ReturnedIndices(s) ==
    [p \in 1..Len(req[s].out.results) |-> IndexOfId(req[s].out.results[p].id)]

PositionOf(s, i) == CHOOSE p \in 1..Len(ReturnedIndices(s)) : ReturnedIndices(s)[p] = i
IsReturned(s, i) == \E p \in 1..Len(ReturnedIndices(s)) : ReturnedIndices(s)[p] = i

\* What the code's filter lets through
PassesFilter(s, i) == ~FilterSkips(api.metadata[i], req[s].faculty_type)

\* C5: of two stored records with equal score, the one with the lower store
\* index is ranked first, and if only one of them is returned it is that one
C5_TieBreakLowerIndexFirst ==
    \A s \in Slots :
        ReturnedOk(s) =>
            \A i, j \in 1..Len(api.embeddings) :
                (/\ i < j
                 /\ ScoresOf(s)[i] = ScoresOf(s)[j]
                 /\ PassesFilter(s, i) /\ PassesFilter(s, j)
                 /\ IsReturned(s, j)) =>
                    /\ IsReturned(s, i)
                    /\ PositionOf(s, i) < PositionOf(s, j)

SameArguments(s, t) ==
    /\ req[s].via = req[t].via
    /\ req[s].query = req[t].query
    /\ req[s].top_k = req[t].top_k
    /\ req[s].faculty_type = req[t].faculty_type

\* C6: two calls with the same query, top_k and category against the
\* unchanged store have the same outcome, the same ordered result list,
\* whatever other calls ran between or beside them
C6_Determinism ==
    \A s, t \in Slots :
        (req[s].pc = "done" /\ req[t].pc = "done" /\ SameArguments(s, t)) =>
            req[s].out = req[t].out

\* Two finished calls with the same arguments, each returning two records
C6_Witness ==
    /\ req["s1"].pc = "done" /\ req["s2"].pc = "done"
    /\ SameArguments("s1", "s2")
    /\ req["s1"].out.status = "ok"
    /\ Len(req["s1"].out.results) = 2
    /\ Len(req["s2"].out.results) = 2

\* C7: the returned list is in non-increasing order of full-precision
\* score, and a stored record that matches the filter and is not returned
\* scores no higher than any returned one; the rounding of the reported
\* score decides neither
C7_FullPrecisionOrder ==
    \A s \in Slots :
        ReturnedOk(s) =>
            LET scores == ScoresOf(s)
                ret == ReturnedIndices(s)
            IN  /\ \A p, q \in 1..Len(ret) :
                       p < q => scores[ret[p]] >= scores[ret[q]]
                /\ \A i \in Matching(api.metadata, req[s].faculty_type) :
                       ~IsReturned(s, i) =>
                           \A p \in 1..Len(ret) : scores[i] <= scores[ret[p]]

\* Two returned records whose scores differ and are reported as the same
\* rounded value
C7_Witness ==
    \E s \in Slots :
        /\ ReturnedOk(s)
        /\ Len(req[s].out.results) = 2
        /\ ScoresOf(s)[ReturnedIndices(s)[1]] > ScoresOf(s)[ReturnedIndices(s)[2]]
        /\ req[s].out.results[1].similarity_score =
               req[s].out.results[2].similarity_score

\* The first k elements of a sequence
Truncated(seq, k) == SubSeq(seq, 1, Min(Len(seq), k))

\* The unfiltered complete ranking of the call in slot s: top_k = store size
FullRanking(s) ==
    RankAndAssemble(req[s].query_embedding, api.embeddings, api.metadata,
                    Len(api.metadata), None, sortStable, InitialResults).results

HasType(r, f) == r.faculty_type = f

\* C8: a filtered result is the unfiltered complete ranking restricted to
\* the records of category f, cut to top_k
C8_FilterIsSelection ==
    \A s \in Slots :
        (Finished(s) /\ req[s].faculty_type # None /\ req[s].top_k >= 1) =>
            /\ req[s].out.status = "ok"
            /\ LET f == req[s].faculty_type
                   Keep(r) == HasType(r, f)
               IN  req[s].out.results =
                       Truncated(SelectSeq(FullRanking(s), Keep), req[s].top_k)

\* C9: on an empty store, or with a filter no stored record matches, the
\* call returns an empty list and raises nothing
C9_EmptyIsNotAnError ==
    \A s \in Slots :
        (/\ Finished(s)
         /\ \/ Len(api.embeddings) = 0
            \/ Matching(api.metadata, req[s].faculty_type) = {}) =>
            req[s].out = Returned(<<>>)

\* The query is empty or only whitespace once normalized
BlankQuery(q) == Split(q) = <<>>

\* C10: a call whose query is blank, or whose top_k <= 0, fails and returns
\* no results, over HTTP and as a direct call (any error counts as failing)
C10_InvalidQueryRejected ==
    \A s \in Slots :
        (req[s].pc = "done" /\ (BlankQuery(req[s].query) \/ req[s].top_k <= 0)) =>
            req[s].out.status # "ok"

\* The whole store and the encoder are in the process's globals
FullyLoaded ==
    /\ api.pc = "ready"
    /\ api.model # None
    /\ embFile.exists /\ api.embeddings = embFile.data
    /\ metaFile.exists /\ api.metadata = metaFile.data

\* C11 (as stated): a call made before the store has been loaded fails with
\* StoreNotLoadedError
C11_StoreNotLoadedError ==
    \A s \in Slots :
        (req[s].pc = "done" /\ req[s].at # "ready") =>
            req[s].out.status = "StoreNotLoadedError"

\* C11 (amended): a request sent before the store has been loaded is not
\* served at all: it ends in a connection error and returns nothing; and a
\* call that reaches recommend_faculty arrived at, and ranks against, a
\* fully loaded store
C11_NotServedBeforeReady ==
    \A s \in Slots :
        /\ (req[s].pc # "idle" /\ req[s].at # "ready") =>
               /\ req[s].pc = "done"
               /\ req[s].out = Raised("ConnectionError")
        /\ (req[s].pc # "idle" /\ req[s].out.status # "ConnectionError") =>
               /\ req[s].at = "ready"
               /\ FullyLoaded

\* A request sent after the embeddings and before the metadata were loaded
C11_Witness ==
    /\ req["s1"].pc = "done"
    /\ req["s1"].at = "embeddingsLoaded"
    /\ api.pc = "embeddingsLoaded"
    /\ Len(api.embeddings) >= 1

\* The state of the spec's facade the serving process is in
FacadeState(a) ==
    CASE a.pc = "down" -> "Uninitialized"
      [] a.pc \in {"start", "embeddingsLoaded", "metadataLoaded"} -> "Loading"
      [] a.pc = "ready" -> "Ready"
      [] a.pc = "failed" -> "Failed"

LifecycleSteps ==
    { <<"Uninitialized", "Loading">>, <<"Loading", "Loading">>,
      <<"Loading", "Ready">>, <<"Loading", "Failed">>, <<"Failed", "Loading">> }

\* C12: the serving process moves Uninitialized -> Loading -> Ready, or
\* Loading -> Failed, and leaves Failed only into Loading; it is Ready only
\* with embeddings, metadata and encoder all loaded; a failed load keeps
\* nothing; and a call is in recommend_faculty only when all is loaded
C12_Lifecycle ==
    [][/\ api' # api => <<FacadeState(api), FacadeState(api')>> \in LifecycleSteps
       /\ FacadeState(api') = "Ready" => FullyLoaded'
       /\ FacadeState(api') = "Failed" => api'.embeddings = <<>> /\ api'.metadata = <<>>
       /\ \A s \in Slots : req'[s].pc = "encoded" => FullyLoaded']_vars

\* A load that failed on the metadata after the embeddings were read
C12_Witness ==
    /\ api.pc = "failed"
    /\ embFile.exists /\ Len(embFile.data) >= 1
    /\ ~metaFile.exists

\* The (embeddings, metadata) pairs one run of build_embeddings.main writes
BuildRunPairs ==
    { <<BuiltEmbeddings(c), BuiltMetadata(c)>> :
        c \in { d \in BuildCorpora : Collect(d).status = "ok" } }

\* C13: a process that has read the embeddings file and the metadata file
\* holds the two artifacts of one build run, never the embeddings of one
\* run with the metadata of another, whenever the rebuild and the reads
\* interleave
C13_RebuildAtomic ==
    api.pc \in {"metadataLoaded", "ready"} =>
        <<api.embeddings, api.metadata>> \in BuildRunPairs

\* The call in slot s has handed its query to the encoder
Encoded(s) == req[s].pc \in {"encoded", "done"} /\ req[s].encoder_inputs # <<>>

TokenCount(q) == Len(Split(q))

SetOf(seq) == { seq[i] : i \in 1..Len(seq) }

\* The element-wise arithmetic mean of vectors of equal length
MeanOf(vs) ==
    [i \in 1..Len(vs[1]) |->
        SumOver([j \in 1..Len(vs) |-> vs[j][i]], Len(vs)) \div Len(vs)]

ExpansionOf(token) ==
    LET word == Lower(token)
        hits == { i \in 1..Len(ACRONYM_MAP) : ACRONYM_MAP[i][1] = word }
    IN  IF hits = {} THEN <<word>>
        ELSE Split(ACRONYM_MAP[CHOOSE i \in hits : TRUE][2])

RECURSIVE ExpectedTokensFrom(_, _)
ExpectedTokensFrom(tokens, i) ==
    IF i > Len(tokens) THEN <<>>
    ELSE ExpansionOf(tokens[i]) \o ExpectedTokensFrom(tokens, i + 1)

ExpectedTokens(q) == ExpectedTokensFrom(Split(q), 1)

C15_LongQueryUnchanged ==
    \A s \in Slots :
        (Encoded(s) /\ TokenCount(req[s].query) > 2) =>
            req[s].encoder_inputs = <<Join(Split(req[s].query))>>

\* C15 (amended): for a query of more than 2 tokens the encoder is given
\* exactly one string: the query lower-cased and whitespace-normalized,
\* with every token that is a key of ACRONYM_MAP replaced by its expansion
\* and every other token kept
C15_LongQueryExpanded ==
    \A s \in Slots :
        (Encoded(s) /\ TokenCount(req[s].query) > 2) =>
            req[s].encoder_inputs = <<Join(ExpectedTokens(req[s].query))>>

\* "dl for  cv" encoded as "deep learning for computer vision"
C15_Witness ==
    \E s \in Slots :
        /\ Encoded(s)
        /\ req[s].query = Q_DLCV
        /\ req[s].encoder_inputs = <<T_DLCV>>
        /\ req[s].pc = "done"

\* The stored records whose vector is all zeros
ZeroRows == { i \in 1..Len(api.embeddings) : ZeroVector(api.embeddings[i]) }

\* C16: with a stored record whose vector is all zeros the call does not
\* raise; that record's similarity is 0 (and is reported as 0); and no
\* record of positive similarity that the filter selects is ranked below
\* it or left out while it is returned
C16_ZeroVectorSafe ==
    \A s \in Slots :
        (Finished(s) /\ ZeroRows # {}) =>
            /\ req[s].out.status = "ok"
            /\ \A i \in ZeroRows :
                  /\ ScoresOf(s)[i] = 0
                  /\ IsReturned(s, i) =>
                        /\ req[s].out.results[PositionOf(s, i)].similarity_score = 0
                        /\ \A j \in Matching(api.metadata, req[s].faculty_type) :
                              ScoresOf(s)[j] > 0 =>
                                  /\ IsReturned(s, j)
                                  /\ PositionOf(s, j) < PositionOf(s, i)

\* A zero-vector record stored first and returned second, after a record
\* of positive similarity
C16_Witness ==
    \E s \in Slots :
        /\ ReturnedOk(s)
        /\ 1 \in ZeroRows
        /\ Len(req[s].out.results) = 2
        /\ ReturnedIndices(s) = <<2, 1>>
        /\ ScoresOf(s)[2] > 0

\* The keys the result card of the frontend reads from a result
CardKeys == {"name", "email", "profile_link", "matched_text"}

\* C17: every returned record carries id, name, category, similarity score,
\* email, profile link and matched text, each taken from the metadata entry
\* at the ranked index
C17_ResultFields ==
    \A s \in Slots :
        ReturnedOk(s) =>
            \A p \in 1..Len(req[s].out.results) :
                LET r == req[s].out.results[p]
                    faculty == api.metadata[ReturnedIndices(s)[p]]
                IN  /\ {"id", "faculty_type", "similarity_score"} \cup CardKeys
                           \subseteq DOMAIN r
                    /\ r.id = faculty.id
                    /\ r.name = faculty.name
                    /\ r.faculty_type = faculty.faculty_type
                    /\ r.similarity_score =
                           Round4(ScoresOf(s)[ReturnedIndices(s)[p]])
                    /\ r.email = faculty.email
                    /\ r.profile_link = faculty.link
                    /\ r.matched_text = faculty.text

\* The ids of the corpus records that have a text, in corpus order
RECURSIVE IdsWithTextFrom(_, _)
IdsWithTextFrom(c, i) ==
    IF i > Len(c) THEN <<>>
    ELSE (IF "text" \in DOMAIN c[i] /\ c[i].text # <<>> THEN <<c[i].id>> ELSE <<>>)
             \o IdsWithTextFrom(c, i + 1)

IdsWithText(c) == IdsWithTextFrom(c, 1)

IdsOf(metadata) == [i \in 1..Len(metadata) |-> metadata[i].id]

\* C18: the store a finished build has written holds one entry, and one
\* embedding row, per corpus record with a non-empty text, in corpus order,
\* and none for a record whose text is empty or missing; and no such
\* record is ever in a result
C18_EmptyTextExcluded ==
    /\ build.pc = "done" =>
          /\ IdsOf(metaFile.data) = IdsWithText(corpus.data)
          /\ Len(embFile.data) = Len(IdsWithText(corpus.data))
          /\ \A i \in 1..Len(metaFile.data) : metaFile.data[i].text # <<>>
    /\ \A s \in Slots :
          ReturnedOk(s) =>
              \A p \in 1..Len(req[s].out.results) :
                  /\ req[s].out.results[p].matched_text # <<>>
                  /\ \E i \in 1..Len(IdsWithText(corpus.data)) :
                        IdsWithText(corpus.data)[i] = req[s].out.results[p].id

\* A corpus whose first record has no text and whose second has one, built
\* into a store of one entry from which a call returns that record
C18_Witness ==
    /\ build.pc = "done"
    /\ Len(corpus.data) = 2
    /\ GetText(corpus.data[1]) = <<>>
    /\ IdsOf(metaFile.data) = <<2>>
    /\ ReturnedOk("s1")
    /\ Len(req["s1"].out.results) = 1

\* C19: no step of a recommend call, alone or interleaved with other
\* calls, changes the loaded embeddings matrix or metadata list
C19_StoreUnchanged ==
    [][(\E s \in Slots : req'[s] # req[s]) =>
           /\ api'.embeddings = api.embeddings
           /\ api'.metadata = api.metadata]_vars

\* A filtered call that skipped a stored record is over while another call
\* is in flight, and the store still is what is on disk
C19_Witness ==
    /\ ReturnedOk("s1")
    /\ req["s1"].faculty_type = "adjunct"
    /\ req["s2"].pc = "encoded"
    /\ Len(api.metadata) = 2
    /\ \E i \in 1..Len(api.metadata) : api.metadata[i].faculty_type # "adjunct"
    /\ api.metadata = metaFile.data
    /\ api.embeddings = embFile.data

\* C20: a refresh of the table from the same cleaned CSV gives every
\* faculty record the id it had before: the records of a corpus fetched
\* before the refresh are still the rows of those ids once it is done
C20_IdStable ==
    (job.pc = "done" /\ corpus.exists) =>
        \A i \in 1..Len(corpus.data) :
            \E k \in 1..Len(db.faculty) :
                /\ db.faculty[k].id = corpus.data[i].id
                /\ db.faculty[k].name = corpus.data[i].name

\* The keys of a record extract_model_fields writes
ModelKeys == {"id", "name", "faculty_type", "text"}

\* C21: on a corpus written by fetch_data, whose records have exactly the
\* fields id, name, faculty_type and text, build_embeddings.main does not
\* fail, and when it is over both artifacts are written
C21_ProducerAcceptsCorpus ==
    (corpus.exists /\ \A i \in 1..Len(corpus.data) : DOMAIN corpus.data[i] = ModelKeys) =>
        /\ build.pc # "failed"
        /\ build.pc = "done" => embFile.exists /\ metaFile.exists

\* C22: the fetched corpus holds every row of the table, each once and in
\* table order, whatever the size of the table
C22_FetchesEveryRecord ==
    corpus.exists =>
        /\ Len(corpus.data) = Len(db.faculty)
        /\ \A i \in 1..Len(db.faculty) : corpus.data[i].id = db.faculty[i].id

\* The steps of a run with --all, in order: one crawl per faculty type, then
\* the three scripts
AllSteps ==
    [k \in 1..Len(FACULTY_TYPES) |-> [step |-> "scrape", arg |-> FACULTY_TYPES[k]]]
    \o [k \in 1..(Len(STEPS) - 1) |-> [step |-> STEPS[k + 1], arg |-> ""]]

\* C23: with --all the steps are started in the fixed order scrape (the five
\* faculty types), json_to_csv, clean_csv, to_sqlite; a step is started only
\* after the one before it has exited with code 0; after a step that failed
\* no step is started, and the success message is printed only after all
\* of them have succeeded
C23_AllInOrder ==
    run.all =>
        /\ Len(run.started) <= Len(AllSteps)
        /\ run.started = SubSeq(AllSteps, 1, Len(run.started))
        /\ Len(run.codes) <= Len(run.started)
        /\ \A k \in 2..Len(run.started) :
              k - 1 <= Len(run.codes) /\ run.codes[k - 1] = 0
        /\ \A k \in 1..Len(run.codes) :
              run.codes[k] # 0 =>
                  k = Len(run.started) /\ run.pc = "failed" /\ ~run.message
        /\ run.message =>
              /\ run.started = AllSteps
              /\ run.codes = [k \in 1..Len(AllSteps) |-> 0]

\* A run with --all that came to its end with rows in the table
C23_Witness ==
    run.all /\ run.message /\ run.pc = "done" /\ Len(db.faculty) = MaxCsv

\* The fields of a table row that come from the CSV row
CsvFields(row) ==
    [name |-> row.name, email |-> row.email, faculty_type |-> row.faculty_type,
     text_for_embedding |-> row.text_for_embedding]

C28_FailedInsertLeavesEmpty ==
    (job.pc = "failed" /\ job.df # <<>>) => db.faculty = <<>>

\* A run that failed on a duplicate email after an earlier run had filled
\* the table
C28_Witness ==
    /\ job.pc = "failed"
    /\ \E i, k \in 1..Len(job.df) : i # k /\ job.df[i].email = job.df[k].email
    /\ db.sequence > 0
    /\ db.faculty = <<>>

\* The cleaned row holds the record of the raw row
SameRecord(cleaned, rawRow) ==
    cleaned.name = rawRow.name /\ cleaned.source_file = rawRow.source_file

\* The e-mail of a raw row as the cleaner compares it
CleanedEmail(rawRow) == CleanRow(rawRow).email

\* C25: in the cleaned CSV no two records have the same email, and for
\* every email of the raw CSV the record kept is the first raw row with it
C25_DedupKeepsFirst ==
    csv.exists =>
        /\ \A i, k \in 1..Len(csv.data) :
              i # k => csv.data[i].email # csv.data[k].email
        /\ \A i \in 1..Len(raw.data) :
              CleanedEmail(raw.data[i]) # NA =>
                  LET first == CHOOSE j \in 1..i :
                          /\ CleanedEmail(raw.data[j]) = CleanedEmail(raw.data[i])
                          /\ \A h \in 1..(j - 1) :
                                CleanedEmail(raw.data[h]) # CleanedEmail(raw.data[i])
                  IN  \E k \in 1..Len(csv.data) :
                          /\ csv.data[k].email = CleanedEmail(raw.data[i])
                          /\ SameRecord(csv.data[k], raw.data[first])

\* Two different records with one email went in, the first came out
C25_Witness ==
    /\ csv.exists
    /\ Len(raw.data) = 2
    /\ raw.data[1].email = MAIL1
    /\ raw.data[2].email = MAIL1
    /\ raw.data[1].name # raw.data[2].name
    /\ Len(csv.data) = 1
    /\ csv.data[1].name = raw.data[1].name

\* The raw cells of an e-mail that is missing: empty (None and blank text
\* are written so), "null", "None"
MissingEmails == {<<>>, W_null, W_None}

TrimmedItems(values) ==
    LET kept == SelectSeq(values, LAMBDA v : Strip(v) # <<>>)
    IN  [i \in 1..Len(kept) |-> Strip(kept[i])]

\* C30: a list column of the cleaned CSV holds the list json_to_csv.clean_list
\* wrote for the record: parse_list_field reads "A | B | C" back as the
\* trimmed non-empty items, in order
C30_ListReadBack ==
    csv.exists =>
        \A k \in 1..Len(csv.data) :
            \E i \in 1..Len(scraped[csv.data[k].source_file].data) :
                LET item == scraped[csv.data[k].source_file].data[i]
                IN  /\ item.name = csv.data[k].name
                    /\ csv.data[k].specialization = TrimmedItems(item.specialization)
                    /\ csv.data[k].research = TrimmedItems(item.research)

\* C26: the string given to the encoder is expand_acronyms(query) and
\* nothing else; it is lower-case, its words are separated by single blanks,
\* they are the words of the query with every key of ACRONYM_MAP replaced by
\* the words of its expansion and every other word kept, and expanding it
\* again returns it unchanged
C26_ExpandIdempotent ==
    \A s \in Slots :
        Encoded(s) =>
            /\ req[s].encoder_inputs = <<expand_acronyms(req[s].query)>>
            /\ LET out == req[s].encoder_inputs[1]
               IN  /\ out = Lower(out)
                   /\ out = Join(Split(out))
                   /\ Split(out) = ExpectedTokens(req[s].query)
                   /\ expand_acronyms(out) = out

\* "for  dbms<tab>" was given and "for database management systems" encoded
C26_Witness ==
    \E s \in Slots :
        /\ ReturnedOk(s)
        /\ req[s].query = W_for \o <<" ", " ", "d", "b", "m", "s", "\t">>
        /\ req[s].encoder_inputs =
               <<Join(<<W_for, W_database, W_management, W_systems>>)>>

\* C27: a GET of /faculty/search with a query text is answered by
\* search_faculty, never by get_faculty_by_id
C27_SearchRouted ==
    (http.response.pc = "done" /\ http.request.path = <<"faculty", "search">>
        /\ http.request.q # NA) =>
        http.response.endpoint = "search_faculty"

=============================================================================
